---- MODULE Spec2Model ----
(***************************************************************************)
(* Model of examples/multi_dataset_recording_example.py: the configuration *)
(* builder create_multi_record_config() and the driver main(), which       *)
(* builds the configuration, prints the instructions, calls the external   *)
(* multi_record and reports the dataset handles it returns.                *)
(*                                                                         *)
(* A local name that is not bound yet is the empty sequence <<>>, a bound  *)
(* one the one-element sequence <<value>>.  Python's None is "None".       *)
(***************************************************************************)
EXTENDS Integers, Sequences, FiniteSets, TLC

\* ------------------------------------------------------------- bounds

\* Longest sequence of dataset handles the external multi_record returns.
MaxHandles == 2

\* Largest num_episodes a returned dataset handle reports.
MaxEpisodes == 2

\* Calls of create_multi_record_config() by callers other than main().
MaxBuilds == 2

\* ------------------------------------------------- the external world

\* repo_id values a returned handle may carry (the external call decides).
HandleRepoIds == {"maelic/pick_knife", "maelic/place_left_knife", "maelic/other"}

\* A dataset handle as main() reads it: .repo_id and .num_episodes.
Handles == [repo_id : HandleRepoIds, num_episodes : 0..MaxEpisodes]

\* Sequences of handles of length 0..MaxHandles.
HandleSeqs == UNION {[1..n -> Handles] : n \in 0..MaxHandles}

\* Exceptions the external call may raise.
Exceptions == {"RuntimeError", "KeyboardInterrupt"}

\* ------------------------------------------- create_multi_record_config

OpenCVCameraConfig(index_or_path, width, height, fps) ==
    [index_or_path |-> index_or_path, width |-> width, height |-> height, fps |-> fps]

robot_config ==
    [port    |-> "/dev/ttyACM0",
     cameras |-> [name \in {"up", "side"} |->
                    IF name = "up" THEN OpenCVCameraConfig(2, 640, 480, 30)
                                   ELSE OpenCVCameraConfig(0, 640, 480, 30)],
     id      |-> "follower_arm"]

teleop_config == [port |-> "/dev/ttyACM1", id |-> "leader_arm"]

episodes == 2

dataset_configs_uneven ==
    <<[repo_id        |-> "maelic/pick_knife",
       single_task    |-> "Pick up the knife from the table.",
       fps            |-> 30,
       episode_time_s |-> 60,
       reset_time_s   |-> 10,
       num_episodes   |-> episodes,
       video          |-> TRUE,
       push_to_hub    |-> FALSE,
       private        |-> TRUE],
      [repo_id        |-> "maelic/place_left_knife",
       single_task    |-> "Place the knife to the left of the plate.",
       fps            |-> 30,
       episode_time_s |-> 60,
       reset_time_s   |-> 10,
       num_episodes   |-> episodes + 1,
       video          |-> TRUE,
       push_to_hub    |-> FALSE,
       private        |-> TRUE]>>

dataset_configs ==
    <<[repo_id        |-> "maelic/pick_knife",
       single_task    |-> "Pick up the knife from the table.",
       fps            |-> 30,
       episode_time_s |-> 60,
       reset_time_s   |-> 10,
       num_episodes   |-> episodes,
       video          |-> TRUE,
       push_to_hub    |-> FALSE,
       private        |-> TRUE],
      [repo_id        |-> "maelic/place_left_knife",
       single_task    |-> "Place the knife to the left of the plate.",
       fps            |-> 30,
       episode_time_s |-> 60,
       reset_time_s   |-> 10,
       num_episodes   |-> episodes,
       video          |-> TRUE,
       push_to_hub    |-> FALSE,
       private        |-> TRUE]>>

stage_switch_keys_swapped == <<"tab", "space">>

stage_switch_keys == <<"space", "tab">>

multi_dataset_config ==
    [datasets |-> dataset_configs, stage_switch_keys |-> stage_switch_keys]

MultiRecordConfig(robot, multi_dataset, teleop, policy, display_data, play_sounds, resume) ==
    [robot |-> robot, multi_dataset |-> multi_dataset, teleop |-> teleop,
     policy |-> policy, display_data |-> display_data,
     play_sounds |-> play_sounds, resume |-> resume]

create_multi_record_config_resume ==
    MultiRecordConfig(robot_config, multi_dataset_config, teleop_config,
                      "None", FALSE, TRUE, TRUE)

create_multi_record_config ==
    MultiRecordConfig(robot_config, multi_dataset_config, teleop_config,
                      "None", FALSE, TRUE, FALSE)

\* ------------------------------------------------------ main: the text

\* The eight lines main() prints before the external call; print() with no
\* argument writes an empty line.
InstructionLines ==
    <<"Starting multi-dataset recording...",
      "Instructions:",
      "- Press SPACE to record 'pick' motion to the first dataset",
      "- Press TAB to record 'place' motion to the second dataset",
      "- Press RIGHT ARROW to finish current episode",
      "- Press LEFT ARROW to re-record current episode",
      "- Press ESC to stop recording completely",
      "">>

\* f"Recording completed! Created {len(datasets)} datasets:"
SummaryLine(ds) ==
    "Recording completed! Created " \o ToString(Len(ds)) \o " datasets:"

DatasetLine_from_config(idx, dataset) ==
    "  Dataset " \o ToString(idx) \o ": " \o dataset.repo_id
        \o " with " \o ToString(episodes) \o " episodes"

\* f"  Dataset {i}: {dataset.repo_id} with {dataset.num_episodes} episodes"
DatasetLine(idx, dataset) ==
    "  Dataset " \o ToString(idx) \o ": " \o dataset.repo_id
        \o " with " \o ToString(dataset.num_episodes) \o " episodes"

\* ------------------------------------------------------------- state

VARIABLES
    pc,          \* main()'s position
    config,      \* main()'s local config: <<>> or <<the configuration>>
    out,         \* standard output: the lines printed so far
    datasets,    \* main()'s local datasets: the sequence multi_record returned
    i,           \* the index enumerate() hands out next
    arg,         \* the argument multi_record was invoked with: <<>> or <<cfg>>
    buildCalls,  \* calls of create_multi_record_config() made by main()
    recordCalls, \* invocations of multi_record made by main()
    thrown,      \* the exception the external call raised, or "none"
    propagated,  \* the exception that left main(), or "none"
    built        \* configurations returned to callers other than main()

vars == <<pc, config, out, datasets, i, arg, buildCalls, recordCalls,
          thrown, propagated, built>>

Init ==
    /\ pc = "start"
    /\ config = <<>>
    /\ out = <<>>
    /\ datasets = <<>>
    /\ i = 0
    /\ arg = <<>>
    /\ buildCalls = 0
    /\ recordCalls = 0
    /\ thrown = "none"
    /\ propagated = "none"
    /\ built = <<>>

\* ----------------------------------------------------------- actions

\* config = create_multi_record_config()
Build ==
    /\ pc = "start"
    /\ config' = <<create_multi_record_config>>
    /\ buildCalls' = buildCalls + 1
    /\ pc' = "print"
    /\ UNCHANGED <<out, datasets, i, arg, recordCalls, thrown, propagated, built>>

\* One of the eight print statements before the call, in program order.
PrintInstruction ==
    /\ pc = "print"
    /\ Len(out) < Len(InstructionLines)
    /\ out' = Append(out, InstructionLines[Len(out) + 1])
    /\ UNCHANGED <<pc, config, datasets, i, arg, buildCalls, recordCalls,
                   thrown, propagated, built>>

Invoke_before_instructions ==
    /\ pc = "print"
    /\ Len(out) = 0
    /\ arg' = config
    /\ recordCalls' = recordCalls + 1
    /\ pc' = "in_call"
    /\ UNCHANGED <<config, out, datasets, i, buildCalls, thrown, propagated, built>>

\* multi_record(config): control enters the external call.
Invoke ==
    /\ pc = "print"
    /\ Len(out) = Len(InstructionLines)
    /\ arg' = config
    /\ recordCalls' = recordCalls + 1
    /\ pc' = "in_call"
    /\ UNCHANGED <<config, out, datasets, i, buildCalls, thrown, propagated, built>>

\* datasets = multi_record(config): the external call returns ds.
MultiRecordReturn(ds) ==
    /\ pc = "in_call"
    /\ datasets' = ds
    /\ pc' = "summary"
    /\ UNCHANGED <<config, out, i, arg, buildCalls, recordCalls, thrown,
                   propagated, built>>

MultiRecordRaise_swallowed(e) ==
    /\ pc = "in_call"
    /\ thrown' = e
    /\ datasets' = <<>>
    /\ pc' = "summary"
    /\ UNCHANGED <<config, out, i, arg, buildCalls, recordCalls, propagated, built>>

MultiRecordRaise_retried(e) ==
    /\ pc = "in_call"
    /\ thrown' = e
    /\ pc' = "print"
    /\ UNCHANGED <<config, out, datasets, i, arg, buildCalls, recordCalls,
                   propagated, built>>

\* The external call raises e; main() has no try statement, so e leaves main().
MultiRecordRaise(e) ==
    /\ pc = "in_call"
    /\ thrown' = e
    /\ propagated' = e
    /\ pc' = "raised"
    /\ UNCHANGED <<config, out, datasets, i, arg, buildCalls, recordCalls, built>>

PrintSummary_clearing_config ==
    /\ pc = "summary"
    /\ out' = Append(out, SummaryLine(datasets))
    /\ config' = <<[config[1] EXCEPT !.multi_dataset.datasets = <<>>]>>
    /\ i' = 0
    /\ pc' = "loop"
    /\ UNCHANGED <<datasets, arg, buildCalls, recordCalls, thrown,
                   propagated, built>>

\* print(f"Recording completed! Created {len(datasets)} datasets:")
PrintSummary ==
    /\ pc = "summary"
    /\ out' = Append(out, SummaryLine(datasets))
    /\ i' = 0
    /\ pc' = "loop"
    /\ UNCHANGED <<config, datasets, arg, buildCalls, recordCalls, thrown,
                   propagated, built>>

\* One iteration of: for i, dataset in enumerate(datasets): print(...)
PrintDataset ==
    /\ pc = "loop"
    /\ i < Len(datasets)
    /\ out' = Append(out, DatasetLine(i, datasets[i + 1]))
    /\ i' = i + 1
    /\ UNCHANGED <<pc, config, datasets, arg, buildCalls, recordCalls, thrown,
                   propagated, built>>

\* enumerate() is exhausted; main() returns.
LoopExit ==
    /\ pc = "loop"
    /\ i = Len(datasets)
    /\ pc' = "done"
    /\ UNCHANGED <<config, out, datasets, i, arg, buildCalls, recordCalls,
                   thrown, propagated, built>>

CallBuilder_printing ==
    /\ Len(built) < MaxBuilds
    /\ built' = Append(built, create_multi_record_config)
    /\ out' = Append(out, "Creating configuration...")
    /\ UNCHANGED <<pc, config, datasets, i, arg, buildCalls, recordCalls,
                   thrown, propagated>>

\* Another caller of the module calls create_multi_record_config().
CallBuilder ==
    /\ Len(built) < MaxBuilds
    /\ built' = Append(built, create_multi_record_config)
    /\ UNCHANGED <<pc, config, out, datasets, i, arg, buildCalls, recordCalls,
                   thrown, propagated>>

Next ==
    \/ Build
    \/ PrintInstruction
    \/ Invoke
    \/ \E ds \in HandleSeqs : MultiRecordReturn(ds)
    \/ \E e \in Exceptions : MultiRecordRaise(e)
    \/ PrintSummary
    \/ PrintDataset
    \/ LoopExit
    \/ CallBuilder

Spec == Init /\ [][Next]_vars

\* ------------------------------------------------------------ claims

\* The configuration main() holds, once create_multi_record_config() returned.
Built == config # <<>>

\* C1: the configuration the builder returns has exactly the hard-coded
\* literals: robot port and id, the two cameras "up" (2) and "side" (0) at
\* 640x480, 30 fps, teleop port and id, the two dataset configs in order with
\* fps 30, reset_time_s 10, num_episodes 2, video, not pushed, private; no
\* policy, display_data False, play_sounds True, resume False.
C1_ConfigLiterals ==
    Built =>
        LET c == config[1]
            ds == c.multi_dataset.datasets
        IN  /\ c.robot.port = "/dev/ttyACM0"
            /\ c.robot.id = "follower_arm"
            /\ DOMAIN c.robot.cameras = {"up", "side"}
            /\ c.robot.cameras["up"].index_or_path = 2
            /\ c.robot.cameras["side"].index_or_path = 0
            /\ \A name \in DOMAIN c.robot.cameras :
                 /\ c.robot.cameras[name].width = 640
                 /\ c.robot.cameras[name].height = 480
                 /\ c.robot.cameras[name].fps = 30
            /\ c.teleop.port = "/dev/ttyACM1"
            /\ c.teleop.id = "leader_arm"
            /\ Len(ds) = 2
            /\ ds[1].repo_id = "maelic/pick_knife"
            /\ ds[2].repo_id = "maelic/place_left_knife"
            /\ \A k \in 1..Len(ds) :
                 /\ ds[k].fps = 30
                 /\ ds[k].reset_time_s = 10
                 /\ ds[k].num_episodes = 2
                 /\ ds[k].video = TRUE
                 /\ ds[k].push_to_hub = FALSE
                 /\ ds[k].private = TRUE
            /\ c.policy = "None"
            /\ c.display_data = FALSE
            /\ c.play_sounds = TRUE
            /\ c.resume = FALSE

C1_Witness == Built /\ pc = "print" /\ out = <<>>

\* C2: stage_switch_keys is <<"space", "tab">>, as long as the dataset list,
\* without a repeated key, the k-th key going with the k-th dataset config
\* (space: pick_knife, tab: place_left_knife), as the printed SPACE and TAB
\* instruction lines say.
C2_StageSwitchKeys ==
    Built =>
        LET md == config[1].multi_dataset
            keys == md.stage_switch_keys
        IN  /\ keys = <<"space", "tab">>
            /\ Len(keys) = Len(md.datasets)
            /\ \A a, b \in 1..Len(keys) : keys[a] = keys[b] => a = b
            /\ keys[1] = "space" /\ md.datasets[1].repo_id = "maelic/pick_knife"
            /\ keys[2] = "tab" /\ md.datasets[2].repo_id = "maelic/place_left_knife"
            /\ Len(out) >= 4 =>
                 /\ out[3] = "- Press SPACE to record 'pick' motion to the first dataset"
                 /\ out[4] = "- Press TAB to record 'place' motion to the second dataset"

C2_Witness == Built /\ Len(out) = 4

\* The text the report is expected to show, written out independently of
\* the driver's own formatting.
ExpectedSummary(n) == "Recording completed! Created " \o ToString(n) \o " datasets:"

ExpectedDatasetLine(idx, repo_id, num_episodes) ==
    "  Dataset " \o ToString(idx) \o ": " \o repo_id \o " with "
        \o ToString(num_episodes) \o " episodes"

\* C3: whatever sequence of n handles the external call returned, main()
\* prints after the call one summary line with the count n and then exactly
\* n lines, the k-th (from 0) showing k with the repo_id and num_episodes of
\* the k-th returned handle; while the loop runs, the lines printed so far
\* are those of the handles already visited.
C3_Report ==
    /\ pc \in {"loop", "done"} =>
         /\ Len(out) = Len(InstructionLines) + 1 + i
         /\ out[Len(InstructionLines) + 1] = ExpectedSummary(Len(datasets))
         /\ \A k \in 1..i :
              out[Len(InstructionLines) + 1 + k] =
                  ExpectedDatasetLine(k - 1, datasets[k].repo_id, datasets[k].num_episodes)
    /\ pc = "done" => i = Len(datasets)

C3_Witness ==
    /\ pc = "done"
    /\ Len(datasets) = 2
    /\ datasets[1].num_episodes = 0
    /\ datasets[2].num_episodes = 1
    /\ datasets[1].repo_id = "maelic/other"
    /\ out[10] = "  Dataset 0: maelic/other with 0 episodes"
    /\ out[11] # out[10]

\* C4: once the builder has returned, no step of main() changes the
\* configuration.
C4_ConfigNeverMutated == [][Built => config' = config]_vars

C4_Witness == pc = "done" /\ Built /\ config = arg /\ Len(datasets) = 1

\* C5: when the external call raises, the same exception leaves main(), and
\* the output of the run is the instruction lines and nothing more.
C5_ExceptionPropagates ==
    thrown # "none" =>
        /\ pc = "raised"
        /\ propagated = thrown
        /\ out = InstructionLines

C5_Witness == thrown = "RuntimeError" /\ pc = "raised"

\* C6: the configuration is built first; the eight instruction lines are
\* printed in order and in full before multi_record is invoked; nothing is
\* printed while the call is in progress; every later line is printed after
\* the call returned.
C6_Order ==
    [][ /\ out' # out =>
             /\ Built
             /\ \/ /\ recordCalls = 0
                   /\ Len(out) < Len(InstructionLines)
                   /\ out' = SubSeq(InstructionLines, 1, Len(out) + 1)
                \/ /\ pc \in {"summary", "loop"}
                   /\ Len(out) >= Len(InstructionLines)
                   /\ SubSeq(out', 1, Len(InstructionLines)) = InstructionLines
                   /\ Len(out') = Len(out) + 1
        /\ recordCalls' # recordCalls => (Built /\ out = InstructionLines)
        /\ pc \in {"start", "in_call", "raised", "done"} => out' = out
      ]_vars

C6_Witness == pc = "loop" /\ i = 1 /\ Len(out) = 10 /\ recordCalls = 1

\* C7: main() calls the builder exactly once and multi_record at most once,
\* exactly once from the invocation on, with the configuration the builder
\* returned as its argument, whether the call returns or raises.
C7_CalledOnce ==
    /\ buildCalls <= 1
    /\ recordCalls <= 1
    /\ pc # "start" => buildCalls = 1
    /\ pc \in {"start", "print"} => (recordCalls = 0 /\ arg = <<>>)
    /\ pc \in {"in_call", "summary", "loop", "done", "raised"} =>
          /\ recordCalls = 1
          /\ Built
          /\ arg = config

C7_Witness == pc = "raised" /\ recordCalls = 1 /\ buildCalls = 1 /\ arg # <<>>

\* C8: both dataset configs have an episode duration of 30 seconds, as the
\* comments on the two episode_time_s fields say.
C8_EpisodeTime30 ==
    Built =>
        \A k \in 1..Len(config[1].multi_dataset.datasets) :
            config[1].multi_dataset.datasets[k].episode_time_s = 30

\* C9: all dataset configs have the same num_episodes and the same fps, and
\* that fps is the fps of every camera.
C9_UniformEpisodesAndFps ==
    Built =>
        LET ds == config[1].multi_dataset.datasets
            cams == config[1].robot.cameras
        IN  /\ \A a, b \in 1..Len(ds) :
                 /\ ds[a].num_episodes = ds[b].num_episodes
                 /\ ds[a].fps = ds[b].fps
            /\ \A a \in 1..Len(ds) : \A name \in DOMAIN cams :
                 ds[a].fps = cams[name].fps

C9_Witness ==
    /\ Built
    /\ Len(config[1].multi_dataset.datasets) = 2
    /\ Cardinality(DOMAIN config[1].robot.cameras) = 2

====
